---- MODULE Spec2Model ----
(***************************************************************************)
(* RoomSummaryCard (src/src/card.ts): the widget's held fields, the two    *)
(* host entry points setConfig and the hass setter, and render.            *)
(*                                                                         *)
(* JavaScript values are modelled as follows.                              *)
(*   - undefined is the record Undefined.                                  *)
(*   - an object or array held in a field is Obj(v, r): its content v and  *)
(*     its identity r (the number of the call that allocated it), so that  *)
(*     deep equality (content) and reference equality (identity) differ.   *)
(*   - a string is a sequence of tokens; a template literal concatenates   *)
(*     token sequences; area identifiers are spelled character by          *)
(*     character so that split/charAt/toUpperCase can be computed.         *)
(***************************************************************************)
EXTENDS Integers, Sequences, FiniteSets, TLC

VARIABLES
    _config,           \* @state _config
    _states,           \* @state _states
    _roomEntity,       \* @state _roomEntity
    _problemEntities,  \* @state _problemEntities
    _problemExists,    \* @state _problemExists
    _hass,             \* _hass (not reactive)
    changed,           \* reactive properties for which the last call requested an update
    raised,            \* whether the last call threw
    lastCall,          \* the last host call and its argument (a snapshot by name)
    prevCall,          \* the host call before it
    calls              \* number of host calls so far (allocation clock)

vars == <<_config, _states, _roomEntity, _problemEntities, _problemExists,
          _hass, changed, raised, lastCall, prevCall, calls>>

\* Host calls explored per behaviour.
MaxCalls == 5

----------------------------------------------------------------------------
\* Values

Undefined == [tag |-> "undefined"]

Obj(v, r) == [tag |-> "object", val |-> v, ref |-> r]

\* a === b on held values: same object, or both undefined.
SameRef(a, b) ==
    IF a.tag # b.tag THEN FALSE
    ELSE IF a.tag = "undefined" THEN TRUE
    ELSE a.ref = b.ref

\* Mutant of equal: the gate compares references instead of content.
equalByReference(a, b) == SameRef(a, b)

\* fast-deep-equal: content equality, identity ignored.
equal(a, b) ==
    IF a.tag # b.tag THEN FALSE
    ELSE IF a.tag = "undefined" THEN TRUE
    ELSE a.val = b.val

----------------------------------------------------------------------------
\* Strings of the explored inputs

Den == <<"d", "e", "n">>
TvRoom == <<"t", "v", "_", "r">>

toUpperCase1(ch) ==
    CASE ch = "d" -> "D"
      [] ch = "e" -> "E"
      [] ch = "n" -> "N"
      [] ch = "t" -> "T"
      [] ch = "v" -> "V"
      [] ch = "r" -> "R"
      [] ch = "c" -> "C"
      [] ch = "f" -> "F"
      [] OTHER -> ch

toUpperCase(s) == [i \in 1..Len(s) |-> toUpperCase1(s[i])]

\* `sensor.${config.area}_climate_humidity`
DefaultHumiditySensor(area) == <<"sensor.">> \o area \o <<"_climate_humidity">>

\* `sensor.${config.area}_climate_air_temperature`
DefaultTemperatureSensor(area) == <<"sensor.">> \o area \o <<"_climate_air_temperature">>

Light(area) == <<"light.">> \o area \o <<"_light">>
Fan == <<"switch.den_fan">>
Leak == <<"binary_sensor.den_leak">>

On == [state |-> <<"on">>]
Off == [state |-> <<"off">>]

With(f, k, v) == (k :> v) @@ f
Without(f, k) == [x \in (DOMAIN f) \ {k} |-> f[x]]

----------------------------------------------------------------------------
\* Host snapshots pushed through the hass setter

Devices ==
    << [id |-> <<"dev_light">>, area_id |-> Den],
       [id |-> <<"dev_leak">>, area_id |-> Den],
       [id |-> <<"dev_fan">>, area_id |-> TvRoom] >>

LightEntity == [entity_id |-> Light(Den), area_id |-> Den, device_id |-> <<"dev_light">>, labels |-> {}]
FanEntity == [entity_id |-> Fan, area_id |-> Den, device_id |-> <<"dev_fan">>, labels |-> {}]
LeakEntity == [entity_id |-> Leak, area_id |-> <<>>, device_id |-> <<"dev_leak">>, labels |-> {"problem"}]

BaseStates ==
    (DefaultTemperatureSensor(Den) :> [state |-> <<"21.5">>])
    @@ (DefaultHumiditySensor(Den) :> [state |-> <<"40">>])
    @@ (DefaultTemperatureSensor(TvRoom) :> [state |-> <<"19">>])
    @@ (Light(Den) :> On)
    @@ (Fan :> On)
    @@ (Leak :> Off)

\* everything present, the leak sensor registered but not alerting
HassBase == [states |-> BaseStates, entities |-> <<LightEntity, FanEntity, LeakEntity>>, devices |-> Devices]
\* only the temperature reading differs from HassBase
HassWarmer == [HassBase EXCEPT !.states = With(BaseStates, DefaultTemperatureSensor(Den), [state |-> <<"22">>])]
\* the leak sensor alerts
HassLeaking == [HassBase EXCEPT !.states = With(BaseStates, Leak, On)]
\* the temperature sensor has no live state
HassNoTemperature == [HassBase EXCEPT !.states = Without(BaseStates, DefaultTemperatureSensor(Den))]
\* the leak sensor is not in the registry and the light is off
HassNoLeak ==
    [states |-> With(Without(BaseStates, Leak), Light(Den), Off),
     entities |-> <<LightEntity, FanEntity>>, devices |-> Devices]
\* the humidity sensor and the fan have no live state
HassNoHumidity == [HassBase EXCEPT !.states = Without(Without(BaseStates, DefaultHumiditySensor(Den)), Fan)]

Snapshots ==
    [base |-> HassBase, warmer |-> HassWarmer, leaking |-> HassLeaking,
     noTemperature |-> HassNoTemperature, noLeak |-> HassNoLeak, noHumidity |-> HassNoHumidity]

HassInputs == {Snapshots[n] : n \in DOMAIN Snapshots}

\* the name under which a pushed snapshot is recorded in lastCall
SnapshotName(hass) == CHOOSE n \in DOMAIN Snapshots : Snapshots[n] = hass

----------------------------------------------------------------------------
\* Configurations passed to setConfig (area is required, see card.ts:189)

ConfigInputs ==
    { [area |-> Den],
      [area |-> TvRoom],
      [area |-> Den, humidity_sensor |-> DefaultHumiditySensor(Den)],
      [area |-> Den, temperature_sensor |-> DefaultTemperatureSensor(TvRoom)],
      [area |-> Den, label |-> <<"Study">>, unit |-> <<"f">>, theme |-> <<"dark">>],
      [area |-> Den, entities |-> <<Fan, Leak>>],
      [area |-> Den, entities |-> <<Leak, Fan>>] }

----------------------------------------------------------------------------
\* Entity query helpers imported from ./helpers and ./styles

\* live state of an entity, or undefined
getState(hass, entityId) ==
    IF entityId \in DOMAIN hass.states THEN hass.states[entityId] ELSE Undefined

getDevice(hass, deviceId) ==
    CHOOSE d \in {hass.devices[i] : i \in DOMAIN hass.devices} : d.id = deviceId

getEntity(hass, entityId) ==
    CHOOSE e \in {hass.entities[i] : i \in DOMAIN hass.entities} : e.entity_id = entityId

\* the area's primary entity with its live state
getRoomEntity(hass, config) ==
    [entity_id |-> Light(config.area), state |-> getState(hass, Light(config.area))]

\* one EntityInformation per configured entity, in configuration order
getIconEntities(hass, config) ==
    IF "entities" \in DOMAIN config
    THEN [i \in 1..Len(config.entities) |->
            [entity_id |-> config.entities[i], state |-> getState(hass, config.entities[i])]]
    ELSE <<>>

\* problem entities bound to the area directly or through their device
getProblemEntities(hass, area) ==
    LET InArea(e) ==
            /\ "problem" \in e.labels
            /\ \/ e.area_id = area
               \/ \E i \in DOMAIN hass.devices :
                     hass.devices[i].id = e.device_id /\ hass.devices[i].area_id = area
        found == SelectSeq(hass.entities, InArea)
        ids == [i \in 1..Len(found) |-> found[i].entity_id]
    IN  [problemEntities |-> ids,
         problemExists |-> \E i \in 1..Len(ids) : getState(hass, ids[i]) = On]

\* presentational class keyed off the entity's live state
getEntityIconStyles(state) ==
    IF state = Undefined THEN [textStyle |-> "unavailable"]
    ELSE IF state = On THEN [textStyle |-> "active"]
    ELSE [textStyle |-> "inactive"]

getCardStyles(hass, config, state) ==
    IF state = Undefined THEN "unavailable"
    ELSE IF state = On THEN "active"
    ELSE "inactive"

createStateIcon(hass, entity, classes) == [entity |-> entity, classes |-> classes]

----------------------------------------------------------------------------
\* Reactive properties (lit @state) and the equality gate

\* lit's default hasChanged for an object-valued property: value !== old
notEqual(value, old) == ~SameRef(value, old)

\* Mutant of GatedAssign: the field is assigned on every call.
AlwaysAssign(derived, held) == derived

\* `if (!equal(x, this._x)) this._x = x`: the field after the statement
GatedAssign(derived, held) == IF ~equal(derived, held) THEN derived ELSE held

\* whether that statement makes the property request an update
GatedSignal(derived, held) == ~equal(derived, held) /\ notEqual(derived, held)

\* `this._problemExists = problemExists`: a primitive, assigned on every push;
\* the property requests an update only when the value differs
PrimitiveSignal(value, old) == value # old

----------------------------------------------------------------------------
\* State after construction

Init ==
    /\ _config = Undefined
    /\ _states = Undefined
    /\ _roomEntity = Undefined
    /\ _problemEntities = Obj(<<>>, 0)
    /\ _problemExists = FALSE
    /\ _hass = Undefined
    /\ changed = {}
    /\ raised = FALSE
    /\ lastCall = [op |-> "constructor", arg |-> Undefined]
    /\ prevCall = [op |-> "none", arg |-> Undefined]
    /\ calls = 0

----------------------------------------------------------------------------
\* setConfig(config)

\* `${config.area}` inside a template literal
AreaText(config) == IF "area" \in DOMAIN config THEN config.area ELSE <<"undefined">>

\* Mutant of MergeConfig: the defaults are spread after the input, { ...config, defaults }.
MergeConfigDefaultsLast(config) ==
    LET defaults == [humidity_sensor |-> DefaultHumiditySensor(AreaText(config)),
                     temperature_sensor |-> DefaultTemperatureSensor(AreaText(config))]
    IN  [k \in (DOMAIN defaults) \cup (DOMAIN config) |->
            IF k \in DOMAIN defaults THEN defaults[k] ELSE config[k]]

\* { humidity_sensor: ..., temperature_sensor: ..., ...config }
MergeConfig(config) ==
    LET defaults == [humidity_sensor |-> DefaultHumiditySensor(AreaText(config)),
                     temperature_sensor |-> DefaultTemperatureSensor(AreaText(config))]
    IN  [k \in (DOMAIN defaults) \cup (DOMAIN config) |->
            IF k \in DOMAIN config THEN config[k] ELSE defaults[k]]

\* Mutant of setConfig: the merged configuration is patched onto the held one,
\* { ...this._config, ...cardConfig }, instead of replacing it.
setConfigPatching(config) ==
    /\ calls < MaxCalls
    /\ calls' = calls + 1
    /\ LET merged == MergeConfig(config)
           patched == IF _config = Undefined THEN merged
                      ELSE [k \in (DOMAIN _config.val) \cup (DOMAIN merged) |->
                               IF k \in DOMAIN merged THEN merged[k] ELSE _config.val[k]]
           cardConfig == Obj(patched, calls + 1)
       IN  /\ _config' = GatedAssign(cardConfig, _config)
           /\ changed' = IF GatedSignal(cardConfig, _config) THEN {"_config"} ELSE {}
    /\ raised' = FALSE
    /\ lastCall' = [op |-> "setConfig", arg |-> config]
    /\ prevCall' = lastCall
    /\ UNCHANGED <<_states, _roomEntity, _problemEntities, _problemExists, _hass>>

setConfig(config) ==
    /\ calls < MaxCalls
    /\ calls' = calls + 1
    /\ LET cardConfig == Obj(MergeConfig(config), calls + 1)
       IN  /\ _config' = GatedAssign(cardConfig, _config)
           /\ changed' = IF GatedSignal(cardConfig, _config) THEN {"_config"} ELSE {}
    /\ raised' = FALSE
    /\ lastCall' = [op |-> "setConfig", arg |-> config]
    /\ prevCall' = lastCall
    /\ UNCHANGED <<_states, _roomEntity, _problemEntities, _problemExists, _hass>>

----------------------------------------------------------------------------
\* set hass(hass)

hassSetter(hass) ==
    /\ calls < MaxCalls
    /\ calls' = calls + 1
    /\ lastCall' = [op |-> "hass", arg |-> SnapshotName(hass)]
    /\ prevCall' = lastCall
    /\ _hass' = Obj(hass, calls + 1)
    /\ UNCHANGED _config
    /\ IF _config = Undefined
       THEN \* this._config.area: TypeError, nothing after line 161 has run
            /\ raised' = TRUE
            /\ changed' = {}
            /\ UNCHANGED <<_states, _roomEntity, _problemEntities, _problemExists>>
       ELSE LET states == Obj(getIconEntities(hass, _config.val), calls + 1)
                roomEntity == Obj(getRoomEntity(hass, _config.val), calls + 1)
                problems == getProblemEntities(hass, _config.val.area)
                problemEntities == Obj(problems.problemEntities, calls + 1)
            IN  /\ raised' = FALSE
                /\ _problemExists' = problems.problemExists
                /\ _roomEntity' = GatedAssign(roomEntity, _roomEntity)
                /\ _states' = GatedAssign(states, _states)
                /\ _problemEntities' = GatedAssign(problemEntities, _problemEntities)
                /\ changed' =
                      {f \in {"_problemExists"} : PrimitiveSignal(problems.problemExists, _problemExists)}
                      \cup {f \in {"_roomEntity"} : GatedSignal(roomEntity, _roomEntity)}
                      \cup {f \in {"_states"} : GatedSignal(states, _states)}
                      \cup {f \in {"_problemEntities"} : GatedSignal(problemEntities, _problemEntities)}

----------------------------------------------------------------------------
\* render() and the private methods it calls

\* area.split('_').map(w => w.charAt(0).toUpperCase() + w.slice(1)).join(' ')
RECURSIVE FormatFrom(_, _, _)
FormatFrom(area, i, wordStart) ==
    IF i > Len(area) THEN <<>>
    ELSE IF area[i] = "_" THEN <<" ">> \o FormatFrom(area, i + 1, TRUE)
    ELSE <<IF wordStart THEN toUpperCase1(area[i]) ELSE area[i]>> \o FormatFrom(area, i + 1, FALSE)

_formatAreaName == FormatFrom(_config.val.area, 1, TRUE)

\* `${getState(...)?.state}` inside a template literal
StateText(liveState) == IF liveState = Undefined THEN <<"undefined">> ELSE liveState.state

_getLabel ==
    IF _hass = Undefined \/ _config.val.area = <<>> THEN <<>>
    ELSE LET sensorTemp == getState(_hass.val, _config.val.temperature_sensor)
             humidity == getState(_hass.val, _config.val.humidity_sensor)
             unit == toUpperCase(IF "unit" \in DOMAIN _config.val THEN _config.val.unit ELSE <<"C">>)
         IN  StateText(sensorTemp) \o <<"°">> \o unit \o <<" - ">> \o StateText(humidity) \o <<"%">>

_getAreaStatistics ==
    IF _hass = Undefined \/ _config.val.area = <<>> THEN <<>>
    ELSE LET hass == _hass.val
             area == _config.val.area
             deviceKeys == [i \in 1..Len(hass.devices) |-> hass.devices[i].id]
             entityKeys == [i \in 1..Len(hass.entities) |-> hass.entities[i].entity_id]
             DeviceInArea(k) == getDevice(hass, k).area_id = area
             devices == SelectSeq(deviceKeys, DeviceInArea)
             EntityInArea(k) ==
                 \/ getEntity(hass, k).area_id = area
                 \/ \E j \in 1..Len(devices) : devices[j] = getEntity(hass, k).device_id
             entities == SelectSeq(entityKeys, EntityInArea)
         IN  <<Len(devices), " ", "devices", " ", Len(entities), " ", "entities">>

Nothing == [tag |-> "nothing"]

\* Mutant of _renderProblemIndicator: the badge is shown only while a problem is active.
renderProblemIndicatorOnlyWhenActive ==
    IF ~_problemExists THEN Nothing
    ELSE [tag |-> "ha-icon",
          icon |-> <<"mdi:numeric-", Len(_problemEntities.val)>>,
          style |-> "rgba(var(--color-red), 0.8)"]

_renderProblemIndicator ==
    IF Len(_problemEntities.val) = 0 THEN Nothing
    ELSE [tag |-> "ha-icon",
          icon |-> <<"mdi:numeric-", Len(_problemEntities.val)>>,
          style |-> IF _problemExists
                    THEN "rgba(var(--color-red), 0.8)"
                    ELSE "rgba(var(--color-green), 0.6)"]

EmptyTemplate == [tag |-> "empty"]
TypeError == [tag |-> "TypeError"]

\* Mutant of render: the guard also treats an empty icon list as not yet renderable
\* (`!this._states?.length`).
renderEmptyWithoutIcons ==
    IF _states = Undefined \/ Len(_states.val) = 0 THEN EmptyTemplate
    ELSE [tag |-> "card",
          textStyle |-> getEntityIconStyles(_roomEntity.val.state).textStyle,
          cardStyle |-> getCardStyles(_hass.val, _config.val, _roomEntity.val.state),
          areaName |-> IF "label" \in DOMAIN _config.val THEN _config.val.label ELSE _formatAreaName,
          label |-> _getLabel,
          stats |-> _getAreaStatistics,
          roomIcon |-> createStateIcon(_hass.val, _roomEntity.val, <<"room">>),
          icons |-> [i \in 1..Len(_states.val) |->
                       createStateIcon(_hass.val, _states.val[i], <<"entity", <<"entity-", i>>>>)],
          problemIndicator |-> _renderProblemIndicator]

render ==
    IF _states = Undefined THEN EmptyTemplate
    ELSE IF _roomEntity = Undefined \/ _config = Undefined THEN TypeError
    ELSE [tag |-> "card",
          textStyle |-> getEntityIconStyles(_roomEntity.val.state).textStyle,
          cardStyle |-> getCardStyles(_hass.val, _config.val, _roomEntity.val.state),
          areaName |-> IF "label" \in DOMAIN _config.val THEN _config.val.label ELSE _formatAreaName,
          label |-> _getLabel,
          stats |-> _getAreaStatistics,
          roomIcon |-> createStateIcon(_hass.val, _roomEntity.val, <<"room">>),
          icons |-> [i \in 1..Len(_states.val) |->
                       createStateIcon(_hass.val, _states.val[i], <<"entity", <<"entity-", i>>>>)],
          problemIndicator |-> _renderProblemIndicator]

----------------------------------------------------------------------------

Next ==
    \/ \E config \in ConfigInputs : setConfig(config)
    \/ \E hass \in HassInputs : hassSetter(hass)

Spec == Init /\ [][Next]_vars

----------------------------------------------------------------------------
\* Properties

IsHassPush == lastCall.op = "hass"
IsSetConfig == lastCall.op = "setConfig"

\* content of a held field, identity dropped
Content(x) == IF x.tag = "undefined" THEN Undefined ELSE [tag |-> "object", val |-> x.val]

ViewModel ==
    [config |-> Content(_config),
     roomEntity |-> Content(_roomEntity),
     iconEntities |-> Content(_states),
     problemEntities |-> Content(_problemEntities),
     problemExists |-> _problemExists]

\* C1: a hass push on a widget that holds no configuration completes without
\* raising, and render afterwards produces the empty output.
C1_PushBeforeConfigTolerated ==
    (IsHassPush /\ _config = Undefined) => (~raised /\ render = EmptyTemplate)

\* C2: once a configuration is held and a hass push has been applied, the held
\* roomEntity, iconEntities, problemEntities and problemExists equal what the
\* query helpers derive from the latest snapshot and the held configuration,
\* also directly after a setConfig that follows a push.
C2_ViewModelDerivedFromSnapshotAndConfig ==
    (_config # Undefined /\ _hass # Undefined /\ _states # Undefined) =>
        LET problems == getProblemEntities(_hass.val, _config.val.area)
        IN  /\ Content(_roomEntity) = Content(Obj(getRoomEntity(_hass.val, _config.val), 0))
            /\ Content(_states) = Content(Obj(getIconEntities(_hass.val, _config.val), 0))
            /\ _problemEntities.val = problems.problemEntities
            /\ _problemExists = problems.problemExists

\* C5: a step that leaves every View Model field deep-equal leaves the render
\* output unchanged (render depends on the View Model content alone).
C5_RenderDeterminedByViewModel ==
    [][ViewModel' = ViewModel => render' = render]_vars

\* a sensor value shown as blank text when it has no live state
BlankText(liveState) == IF liveState = Undefined THEN <<>> ELSE liveState.state

\* C6: when the configured temperature or humidity sensor has no live state,
\* the climate label shows blank text for that value and never the text
\* "undefined".
C6_MissingSensorRendersBlank ==
    render.tag = "card" =>
        LET sensorTemp == getState(_hass.val, _config.val.temperature_sensor)
            humidity == getState(_hass.val, _config.val.humidity_sensor)
            unit == IF "unit" \in DOMAIN _config.val THEN toUpperCase(_config.val.unit) ELSE <<"C">>
        IN  (sensorTemp = Undefined \/ humidity = Undefined) =>
                /\ render.label = BlankText(sensorTemp) \o <<"°">> \o unit \o <<" - ">>
                                    \o BlankText(humidity) \o <<"%">>
                /\ \A i \in 1..Len(render.label) : render.label[i] # "undefined"

\* what the gate owes one field over a step: kept and silent when the derived
\* value is deep-equal to the held one, replaced by a new object otherwise
GateHolds(held, heldAfter, derived, name, signalled) ==
    IF held.tag = "object" /\ held.val = derived
    THEN heldAfter = held /\ name \notin signalled
    ELSE heldAfter.tag = "object" /\ heldAfter.val = derived /\ ~SameRef(heldAfter, held)

\* C3: on a hass push with a configuration held, each gated field is replaced
\* by its freshly derived value iff that value is not deep-equal to the held
\* one; otherwise the held reference stays and no change is signalled for it.
C3_GatedFieldsReplacedIffUnequal ==
    [][(lastCall'.op = "hass" /\ _config # Undefined) =>
          LET hass == _hass'.val
              config == _config.val
          IN  /\ GateHolds(_roomEntity, _roomEntity', getRoomEntity(hass, config),
                           "_roomEntity", changed')
              /\ GateHolds(_states, _states', getIconEntities(hass, config),
                           "_states", changed')
              /\ GateHolds(_problemEntities, _problemEntities',
                           getProblemEntities(hass, config.area).problemEntities,
                           "_problemEntities", changed')]_vars

\* a second push kept the room entity (deep-equal, new object) and replaced the icon list
C3_Witness ==
    /\ IsHassPush /\ prevCall.op = "hass" /\ ~raised
    /\ _roomEntity.tag = "object" /\ _roomEntity.ref < calls
    /\ "_roomEntity" \notin changed
    /\ _states.tag = "object" /\ _states.ref = calls

\* C4: a hass push that repeats the snapshot of the push just before it leaves
\* every View Model field as it was and signals no change, problemExists
\* included.
C4_RepeatedPushIdempotent ==
    [][(lastCall.op = "hass" /\ ~raised /\ lastCall'.op = "hass" /\ _hass'.val = _hass.val) =>
          /\ _config' = _config
          /\ _roomEntity' = _roomEntity
          /\ _states' = _states
          /\ _problemEntities' = _problemEntities
          /\ _problemExists' = _problemExists
          /\ changed' = {}]_vars

\* the same snapshot, with an active problem, was pushed twice in a row
C4_Witness ==
    /\ IsHassPush /\ prevCall.op = "hass" /\ prevCall.arg = lastCall.arg
    /\ ~raised /\ _config # Undefined
    /\ _problemExists
    /\ changed = {}
    /\ _roomEntity.ref < calls /\ _states.ref < calls /\ _problemEntities.ref < calls

\* C7: after setConfig(c) the held configuration has the two sensor ids derived
\* from c.area unless c gives them, every key of c with c's value, and no
\* other key.
C7_ConfigDefaulting ==
    IsSetConfig =>
        LET c == lastCall.arg
            merged == _config.val
        IN  /\ DOMAIN merged = (DOMAIN c) \cup {"humidity_sensor", "temperature_sensor"}
            /\ \A k \in DOMAIN c : merged[k] = c[k]
            /\ "humidity_sensor" \notin DOMAIN c =>
                  merged.humidity_sensor = <<"sensor.">> \o c.area \o <<"_climate_humidity">>
            /\ "temperature_sensor" \notin DOMAIN c =>
                  merged.temperature_sensor = <<"sensor.">> \o c.area \o <<"_climate_air_temperature">>

\* an explicit temperature sensor won over the default, the humidity default was filled in
C7_Witness ==
    /\ IsSetConfig
    /\ "temperature_sensor" \in DOMAIN lastCall.arg
    /\ _config.val.temperature_sensor = DefaultTemperatureSensor(TvRoom)
    /\ _config.val.area = Den
    /\ _config.val.humidity_sensor = DefaultHumiditySensor(Den)

\* C8: setConfig replaces the held configuration by the merged one iff the two
\* are not deep-equal; when they are deep-equal the held reference and every
\* other View Model field stay and nothing is signalled; a replacement keeps
\* no key of the previous configuration that the merged one lacks.
C8_SetConfigGatedWholesale ==
    [][lastCall'.op = "setConfig" =>
          LET merged == MergeConfig(lastCall'.arg)
          IN  IF _config.tag = "object" /\ _config.val = merged
              THEN /\ _config' = _config
                   /\ changed' = {}
                   /\ _roomEntity' = _roomEntity
                   /\ _states' = _states
                   /\ _problemEntities' = _problemEntities
                   /\ _problemExists' = _problemExists
              ELSE /\ _config'.tag = "object"
                   /\ ~SameRef(_config', _config)
                   /\ _config'.val = merged
                   /\ \A k \in DOMAIN _config'.val : k \in DOMAIN merged]_vars

\* a differently written input merged to the held configuration and was dropped
C8_Witness ==
    /\ IsSetConfig /\ prevCall.op = "setConfig"
    /\ prevCall.arg # lastCall.arg
    /\ _config.ref < calls
    /\ changed = {}

\* C9: when the card renders, the badge is present iff the held problem list
\* is non-empty, its icon counts the held problem entities, its background is
\* the red 0.8 style iff problemExists and the green 0.6 style otherwise; and
\* after a completed hass push the held flag and list both come from that
\* push's snapshot.
C9_ProblemBadge ==
    /\ render.tag = "card" =>
          LET badge == render.problemIndicator
              n == Len(_problemEntities.val)
          IN  /\ (badge # Nothing) <=> (n > 0)
              /\ badge # Nothing =>
                    /\ badge.icon = <<"mdi:numeric-", n>>
                    /\ _problemExists => badge.style = "rgba(var(--color-red), 0.8)"
                    /\ ~_problemExists => badge.style = "rgba(var(--color-green), 0.6)"
    /\ (IsHassPush /\ ~raised) =>
          LET problems == getProblemEntities(_hass.val, _config.val.area)
          IN  /\ _problemExists = problems.problemExists
              /\ _problemEntities.val = problems.problemEntities

\* a registered but inactive problem entity shows the green badge with count 1
C9_Witness ==
    /\ render.tag = "card"
    /\ IsHassPush
    /\ Len(_problemEntities.val) = 1
    /\ ~_problemExists
    /\ render.problemIndicator.style = "rgba(var(--color-green), 0.6)"

\* C10: render gives the empty output until a hass push completes, the card
\* after a hass push completes, and never the empty output again after that.
C10_Lifecycle ==
    /\ render = EmptyTemplate
    /\ [][/\ (render = EmptyTemplate /\ ~(lastCall'.op = "hass" /\ ~raised')) =>
                render' = EmptyTemplate
          /\ (lastCall'.op = "hass" /\ ~raised') => render'.tag = "card"
          /\ render.tag = "card" => render'.tag = "card"]_vars

\* still the card after a setConfig that followed the first completed push
C10_Witness ==
    /\ render.tag = "card"
    /\ IsSetConfig
    /\ prevCall.op = "hass"
    /\ "_config" \in changed

====
